---- MODULE Spec2Model ----
(***************************************************************************)
(* Jenkins MCP server (src/mcp/jenkins.mjs): eight tools that turn a tool  *)
(* call into one authenticated HTTP request (two for jenkins_rebuild) and  *)
(* the response into a text result or an error.                            *)
(*                                                                         *)
(* Strings are sequences of one-character strings, so that split, slice,   *)
(* join, percent-encoding and JSON serialisation are computed character by *)
(* character as the JavaScript runtime computes them.  JSON values are     *)
(* tagged records [t, v]; a JavaScript object is the sequence of its own   *)
(* properties [k, v] in property order.                                    *)
(***************************************************************************)
EXTENDS Integers, Sequences, FiniteSets, TLC

VARIABLES JENKINS_URL, pc, call, sent, recv, params, result

vars == <<JENKINS_URL, pc, call, sent, recv, params, result>>

-----------------------------------------------------------------------------
(* Bounds of the model.                                                    *)

\* longest job identifier (characters) handed to jenkins_get_job_info
MaxJobLen == 3

\* largest tail argument of jenkins_get_console_output
MaxTail == 3

\* longest short console log (characters); the long logs are LongLogs
MaxLogLen == 4

\* most parameter definitions in a jenkins_get_params response
MaxDefs == 2

\* most recorded parameters in the build a jenkins_rebuild reads
MaxEntries == 2

-----------------------------------------------------------------------------
(* Characters and strings.                                                 *)

NL == "\n"

AlphaNumeric ==
  {"A","B","C","D","E","F","G","H","I","J","K","L","M","N","O","P","Q",
   "R","S","T","U","V","W","X","Y","Z","a","b","c","d","e","f","g","h",
   "i","j","k","l","m","n","o","p","q","r","s","t","u","v","w","x","y",
   "z","0","1","2","3","4","5","6","7","8","9"}

\* encodeURIComponent leaves A-Z a-z 0-9 - _ . ! ~ * ' ( ) alone
UriUnreserved ==
  AlphaNumeric \cup {"-","_",".","!","~","*","'","(",")"}

\* the application/x-www-form-urlencoded serialiser leaves A-Z a-z 0-9 * - . _
\* alone and writes a space as +
FormUnreserved ==
  AlphaNumeric \cup {"*","-",".","_"}

\* %XX of the UTF-8 byte of an ASCII character
PercentCode(c) ==
  CASE c = " " -> <<"%","2","0">>
    [] c = "\n" -> <<"%","0","A">>
    [] c = "\"" -> <<"%","2","2">>
    [] c = "#" -> <<"%","2","3">>
    [] c = "%" -> <<"%","2","5">>
    [] c = "&" -> <<"%","2","6">>
    [] c = "+" -> <<"%","2","B">>
    [] c = "," -> <<"%","2","C">>
    [] c = "/" -> <<"%","2","F">>
    [] c = ":" -> <<"%","3","A">>
    [] c = "=" -> <<"%","3","D">>
    [] c = "?" -> <<"%","3","F">>
    [] c = "[" -> <<"%","5","B">>
    [] c = "\\" -> <<"%","5","C">>
    [] c = "]" -> <<"%","5","D">>
    [] c = "{" -> <<"%","7","B">>
    [] c = "}" -> <<"%","7","D">>
    [] c = "!" -> <<"%","2","1">>
    [] c = "'" -> <<"%","2","7">>
    [] c = "(" -> <<"%","2","8">>
    [] c = ")" -> <<"%","2","9">>
    [] c = "*" -> <<"%","2","A">>
    [] c = "~" -> <<"%","7","E">>
    [] c = "-" -> <<"%","2","D">>
    [] c = "." -> <<"%","2","E">>
    [] c = "_" -> <<"%","5","F">>

MinOf(S) == CHOOSE x \in S : \A y \in S : x <= y

MaxOf(S) == CHOOSE x \in S : \A y \in S : x >= y

\* String.prototype.slice / Array.prototype.slice (start, end): zero-based,
\* a negative index counts from the end, both are clamped to [0, length]
JsSlice(s, start, end) ==
  LET len  == Len(s)
      from == IF start < 0 THEN MaxOf({len + start, 0}) ELSE MinOf({start, len})
      to   == IF end < 0 THEN MaxOf({len + end, 0}) ELSE MinOf({end, len})
  IN  SubSeq(s, from + 1, to)

\* positions of the separator character in s
SepPositions(s, sep) == {i \in 1..Len(s) : s[i] = sep}

\* String.prototype.split(sep) for a one-character separator
RECURSIVE JsSplit(_, _)
JsSplit(s, sep) ==
  LET P == SepPositions(s, sep)
  IN  IF P = {} THEN <<s>>
      ELSE LET i == MinOf(P)
           IN  <<SubSeq(s, 1, i - 1)>> \o JsSplit(SubSeq(s, i + 1, Len(s)), sep)

\* the elements lo..hi of an array of strings with sep between them, joined
\* by halves
RECURSIVE JoinRange(_, _, _, _)
JoinRange(parts, sep, lo, hi) ==
  IF lo = hi THEN parts[lo]
  ELSE LET mid == (lo + hi) \div 2
       IN  JoinRange(parts, sep, lo, mid) \o sep
             \o JoinRange(parts, sep, mid + 1, hi)

\* Array.prototype.join(sep) of an array of strings
JsJoin(parts, sep) ==
  IF Len(parts) = 0 THEN <<>> ELSE JoinRange(parts, sep, 1, Len(parts))

\* the concatenation of an array of strings
Concat(parts) == JsJoin(parts, <<>>)

Digit(d) == <<"0","1","2","3","4","5","6","7","8","9">>[d + 1]

\* decimal digits of a non-negative integer (template literal / String(n))
RECURSIVE NumberToString(_)
NumberToString(n) ==
  IF n < 10 THEN <<Digit(n)>> ELSE NumberToString(n \div 10) \o <<Digit(n % 10)>>

EncodeUriChar(c) == IF c \in UriUnreserved THEN <<c>> ELSE PercentCode(c)

encodeURIComponent(s) == Concat([i \in 1..Len(s) |-> EncodeUriChar(s[i])])

EncodeFormChar(c) ==
  IF c \in FormUnreserved THEN <<c>>
  ELSE IF c = " " THEN <<"+">>
  ELSE PercentCode(c)

FormEncode(s) == Concat([i \in 1..Len(s) |-> EncodeFormChar(s[i])])

-----------------------------------------------------------------------------
(* JavaScript values.                                                      *)

JUndefined == [t |-> "undefined", v |-> 0]

JNull == [t |-> "null", v |-> 0]

JBool(b) == [t |-> "boolean", v |-> b]

JNum(n) == [t |-> "number", v |-> n]

JStr(s) == [t |-> "string", v |-> s]

JArr(xs) == [t |-> "array", v |-> xs]

\* an object: its own properties in property order
JObj(props) == [t |-> "object", v |-> props]

Prop(k, v) == [k |-> k, v |-> v]

HasProp(o, k) == \E i \in 1..Len(o.v) : o.v[i].k = k

\* o.k : the property's value, undefined when o has no such property
GetProp(o, k) ==
  IF HasProp(o, k) THEN o.v[CHOOSE i \in 1..Len(o.v) : o.v[i].k = k].v
  ELSE JUndefined

\* ToBoolean
Truthy(x) ==
  CASE x.t = "undefined" -> FALSE
    [] x.t = "null"      -> FALSE
    [] x.t = "boolean"   -> x.v
    [] x.t = "number"    -> x.v # 0
    [] x.t = "string"    -> Len(x.v) > 0
    [] OTHER             -> TRUE

\* x || [] where x is an array or missing
OrEmpty(x) == IF Truthy(x) THEN x.v ELSE <<>>

\* String(x) for the primitive values a Jenkins parameter carries
JsString(x) ==
  CASE x.t = "string"    -> x.v
    [] x.t = "number"    -> NumberToString(x.v)
    [] x.t = "boolean"   -> IF x.v THEN <<"t","r","u","e">> ELSE <<"f","a","l","s","e">>
    [] x.t = "null"      -> <<"n","u","l","l">>
    [] x.t = "undefined" -> <<"u","n","d","e","f","i","n","e","d">>

K_proto ==
  <<"_","_","p","r","o","t","o","_","_">>

\* o[k] = v on an object created by {}: an existing own property keeps its
\* place and takes the value, a new one is appended; the key __proto__ is the
\* accessor inherited from Object.prototype, whose setter ignores a value
\* that is neither an object nor null, so no own property is created
ObjectSet(o, k, v) ==
  IF k = K_proto THEN o
  ELSE IF \E i \in 1..Len(o) : o[i].k = k
       THEN [i \in 1..Len(o) |-> IF o[i].k = k THEN Prop(k, v) ELSE o[i]]
       ELSE Append(o, Prop(k, v))

\* Object.keys(o)
ObjectKeys(o) == [i \in 1..Len(o) |-> o[i].k]

QuoteChar(c) ==
  CASE c = "\"" -> <<"\\","\"">>
    [] c = "\\" -> <<"\\","\\">>
    [] c = "\n" -> <<"\\","n">>
    [] OTHER    -> <<c>>

\* QuoteJSONString
JsonQuote(s) ==
  <<"\"">> \o Concat([i \in 1..Len(s) |-> QuoteChar(s[i])]) \o <<"\"">>

IsDefined(p) == p.v.t # "undefined"

\* JSON.stringify(x, null, gap): SerializeJSONProperty with the current
\* indentation; gap is <<>> for the compact form and two spaces for
\* JSON.stringify(x, null, 2)
RECURSIVE SerializeJSON(_, _, _)
SerializeJSON(x, indent, gap) ==
  LET inner == indent \o gap
      sep   == IF gap = <<>> THEN <<",">> ELSE <<",", NL>> \o inner
      open  == IF gap = <<>> THEN <<>> ELSE <<NL>> \o inner
      close == IF gap = <<>> THEN <<>> ELSE <<NL>> \o indent
      colon == IF gap = <<>> THEN <<":">> ELSE <<":", " ">>
      Member(p)  == JsonQuote(p.k) \o colon \o SerializeJSON(p.v, inner, gap)
      Element(e) == IF e.t = "undefined" THEN <<"n","u","l","l">>
                    ELSE SerializeJSON(e, inner, gap)
  IN  CASE x.t = "string"  -> JsonQuote(x.v)
        [] x.t = "number"  -> NumberToString(x.v)
        [] x.t = "boolean" -> JsString(x)
        [] x.t = "null"    -> JsString(x)
        [] x.t = "array"   ->
             IF Len(x.v) = 0 THEN <<"[","]">>
             ELSE <<"[">> \o open \o JsJoin([i \in 1..Len(x.v) |-> Element(x.v[i])], sep)
                    \o close \o <<"]">>
        [] x.t = "object"  ->
             LET own == SelectSeq(x.v, IsDefined)
             IN  IF Len(own) = 0 THEN <<"{","}">>
                 ELSE <<"{">> \o open
                        \o JsJoin([i \in 1..Len(own) |-> Member(own[i])], sep)
                        \o close \o <<"}">>

GAP2 == <<" "," ">>

\* JSON.stringify(x, null, 2)
JsonPretty(x) == SerializeJSON(x, <<>>, GAP2)

\* JSON.stringify(x)
JsonCompact(x) == SerializeJSON(x, <<>>, <<>>)

FormPair(p) == FormEncode(p.k) \o <<"=">> \o FormEncode(p.v)

\* new URLSearchParams(o).toString() for an object o of string values
URLSearchParamsToString(o) ==
  JsJoin([i \in 1..Len(o) |-> FormPair(o[i])], <<"&">>)

-----------------------------------------------------------------------------
(* Configuration, read once from the environment.                          *)

\* values of the environment variable JENKINS_URL: one base URL, written
\* with and without trailing slashes
EnvJenkinsUrls ==
  {<<"h",":","/","/","j">>, <<"h",":","/","/","j","/">>,
   <<"h",":","/","/","j","/","/">>}

\* .replace(/\/+$/, "")
RECURSIVE StripTrailingSlashes(_)
StripTrailingSlashes(s) ==
  IF Len(s) > 0 /\ s[Len(s)] = "/"
  THEN StripTrailingSlashes(SubSeq(s, 1, Len(s) - 1))
  ELSE s

JENKINS_USER == <<"u">>

JENKINS_TOKEN == <<"t">>

\* Buffer.from(s).toString("base64"), kept as a constructor over its input
Base64(s) == [base64 |-> s]

authHeaders ==
  "Authorization" :> [scheme |-> "Basic",
                      credentials |-> Base64(JENKINS_USER \o <<":">> \o JENKINS_TOKEN)]

-----------------------------------------------------------------------------
(* String literals of the source.                                          *)

S_job ==
  <<"j","o","b","/">>

S_api_json ==
  <<"/","a","p","i","/","j","s","o","n">>

S_tree ==
  <<"?","t","r","e","e","=">>

S_consoleText ==
  <<"/","c","o","n","s","o","l","e","T","e","x","t">>

S_build ==
  <<"/","b","u","i","l","d">>

S_buildWithParameters ==
  <<"/","b","u","i","l","d","W","i","t","h","P","a","r","a","m","e","t","e",
    "r","s">>

S_queue_item ==
  <<"q","u","e","u","e","/","i","t","e","m","/">>

S_Jenkins ==
  <<"J","e","n","k","i","n","s"," ">>

PARAMS_TREE ==
  <<"p","r","o","p","e","r","t","y","[","p","a","r","a","m","e","t","e","r",
    "D","e","f","i","n","i","t","i","o","n","s","[","n","a","m","e",",","t",
    "y","p","e",",","d","e","f","a","u","l","t","P","a","r","a","m","e","t",
    "e","r","V","a","l","u","e","[","v","a","l","u","e","]",",","d","e","s",
    "c","r","i","p","t","i","o","n",",","c","h","o","i","c","e","s","]",
    "]">>

REBUILD_TREE ==
  <<"a","c","t","i","o","n","s","[","p","a","r","a","m","e","t","e","r","s",
    "[","n","a","m","e",",","v","a","l","u","e","]","]">>

NO_PARAMS_TEXT ==
  <<"T","h","i","s"," ","j","o","b"," ","h","a","s"," ","n","o"," ","p","a",
    "r","a","m","e","t","e","r","s"," ","d","e","f","i","n","e","d",".">>

TRUNCATED_MARKER ==
  <<"[",".",".","."," ","t","r","u","n","c","a","t","e","d"," ",".",".",".",
    "]","\n">>

S_build_triggered ==
  <<"B","u","i","l","d"," ","t","r","i","g","g","e","r","e","d"," ","s","u",
    "c","c","e","s","s","f","u","l","l","y",".","\n","Q","u","e","u","e",
    " ","U","R","L",":"," ">>

S_poll ==
  <<"\n","P","o","l","l"," ">>

S_poll_rest ==
  <<"a","p","i","/","j","s","o","n"," ","t","o"," ","g","e","t"," ","t","h",
    "e"," ","b","u","i","l","d"," ","n","u","m","b","e","r"," ","o","n","c",
    "e"," ","s","c","h","e","d","u","l","e","d",".">>

S_with_parameters ==
  <<"B","u","i","l","d"," ","t","r","i","g","g","e","r","e","d"," ","w","i",
    "t","h"," ","p","a","r","a","m","e","t","e","r","s",":"," ">>

S_queue_url ==
  <<"\n","Q","u","e","u","e"," ","U","R","L",":"," ">>

S_rebuild_of ==
  <<"R","e","b","u","i","l","d"," ","o","f"," ","#">>

S_rebuild_triggered ==
  <<" ","t","r","i","g","g","e","r","e","d",".","\n","E","x","t","r","a",
    "c","t","e","d"," ","p","a","r","a","m","e","t","e","r","s",":"," ">>

S_form_urlencoded ==
  <<"a","p","p","l","i","c","a","t","i","o","n","/","x","-","w","w","w","-",
    "f","o","r","m","-","u","r","l","e","n","c","o","d","e","d">>

S_lastBuild ==
  <<"l","a","s","t","B","u","i","l","d">>

K_property ==
  <<"p","r","o","p","e","r","t","y">>

K_parameterDefinitions ==
  <<"p","a","r","a","m","e","t","e","r","D","e","f","i","n","i","t","i","o",
    "n","s">>

K_actions ==
  <<"a","c","t","i","o","n","s">>

K_parameters ==
  <<"p","a","r","a","m","e","t","e","r","s">>

K_name ==
  <<"n","a","m","e">>

K_value ==
  <<"v","a","l","u","e">>

\* the message of the TypeError a rejected fetch carries
S_fetch_failed ==
  <<"f","e","t","c","h"," ","f","a","i","l","e","d">>

\* characters of the response body an error message keeps
ERROR_BODY_LIMIT == 500

\* longest console text returned without truncation
CONSOLE_LIMIT == 100000

\* characters of console text kept when it is truncated
CONSOLE_KEEP == 100000

-----------------------------------------------------------------------------
(* jobPath and the jenkins() request helper.                               *)

\* (s) => `job/${encodeURIComponent(s)}`
JobSegment(s) == S_job \o encodeURIComponent(s)

\* a faulty jobPath that does not split the name into folders
jobPath_Unsplit(jobName) == JobSegment(jobName)

\* jobName.split("/").map(...).join("/")
jobPath(jobName) ==
  LET segments == JsSplit(jobName, "/")
  IN  JsJoin([i \in 1..Len(segments) |-> JobSegment(segments[i])], <<"/">>)

None == [some |-> FALSE, v |-> <<>>]

Some(x) == [some |-> TRUE, v |-> x]

NoHeaders == [h \in {} |-> <<>>]

\* options = {} : fetch sends a GET without a body
DefaultOptions == [method |-> "GET", headers |-> NoHeaders, body |-> None]

\* { method: "POST" }
PostOptions == [method |-> "POST", headers |-> NoHeaders, body |-> None]

\* { method: "POST", headers: { "Content-Type": ... }, body }
PostFormOptions(body) ==
  [method  |-> "POST",
   headers |-> "Content-Type" :> S_form_urlencoded,
   body    |-> Some(body)]

\* the request jenkins(path, options) hands to fetch
JenkinsRequest(base, path, options) ==
  [method  |-> options.method,
   url     |-> base \o <<"/">> \o path,
   headers |-> options.headers @@ authHeaders,
   body    |-> options.body]

\* a text in the state: its characters in pages of PageSize, which keeps a
\* console log of 100,000 characters readable in a trace
PageSize == 512

Pages(s) ==
  IF Len(s) = 0 THEN <<>>
  ELSE LET n == (Len(s) + PageSize - 1) \div PageSize
       IN  SubSeq([k \in 1..n |->
                     SubSeq(s, (k - 1) * PageSize + 1,
                            IF k * PageSize < Len(s) THEN k * PageSize ELSE Len(s))],
                  1, n)

\* the characters of a text held in pages
Chars(p) ==
  IF Len(p) = 0 THEN <<>>
  ELSE LET total == (Len(p) - 1) * PageSize + Len(p[Len(p)])
       IN  SubSeq([i \in 1..total |->
                     p[((i - 1) \div PageSize) + 1][((i - 1) % PageSize) + 1]],
                  1, total)

\* what fetch settles with: net is a rejected fetch (no response at all);
\* otherwise status and statusText, text with textOk (res.text() and whether
\* it resolves), json (res.json()) and location (headers.get("location"),
\* None for null)
Response(status, statusText, text, textOk, json, location) ==
  [net |-> FALSE, status |-> status, statusText |-> statusText,
   text |-> Pages(text),
   textOk |-> textOk, json |-> json, location |-> location]

NetworkFailure ==
  [net |-> TRUE, status |-> 0, statusText |-> <<>>, text |-> <<>>,
   textOk |-> FALSE, json |-> JUndefined, location |-> None]

\* res.ok
ResOk(res) == res.status \in 200..299

\* await jenkins(...) throws: fetch rejected, or !res.ok
JenkinsThrows(res) == res.net \/ ~ResOk(res)

\* await res.text().catch(() => "")
ErrorBody(res) == IF res.textOk THEN Chars(res.text) ELSE <<>>

\* a faulty message that carries the whole body
JenkinsErrorMessage_WholeBody(res) ==
  S_Jenkins \o NumberToString(res.status) \o <<" ">> \o res.statusText
    \o <<":"," ">> \o ErrorBody(res)

\* `Jenkins ${res.status} ${res.statusText}: ${body.slice(0, 500)}`
JenkinsErrorMessage(res) ==
  S_Jenkins \o NumberToString(res.status) \o <<" ">> \o res.statusText
    \o <<":"," ">> \o JsSlice(ErrorBody(res), 0, ERROR_BODY_LIMIT)

\* the message of what await jenkins(...) throws
ThrownMessage(res) ==
  IF res.net THEN S_fetch_failed ELSE JenkinsErrorMessage(res)

Pending == [kind |-> "none", text |-> <<>>]

\* { content: [{ type: "text", text }] }
TextResult(text) == [kind |-> "text", text |-> Pages(text)]

\* the handler threw: the tool call fails with the error's message
ErrorResult(message) == [kind |-> "error", text |-> Pages(message)]

-----------------------------------------------------------------------------
(* The handlers' computations.                                             *)

\* tree ? `?tree=${encodeURIComponent(tree)}` : ""
TreeQuery(tree) ==
  IF Truthy(tree) THEN S_tree \o encodeURIComponent(tree.v) ELSE <<>>

\* z.string().default("lastBuild")
BuildDefault(build) == IF build.t = "undefined" THEN S_lastBuild ELSE build.v

JobInfoPath(job, tree) == jobPath(job) \o S_api_json \o TreeQuery(tree)

BuildInfoPath(job, build, tree) ==
  jobPath(job) \o <<"/">> \o build \o S_api_json \o TreeQuery(tree)

ParamsPath(job) ==
  jobPath(job) \o S_api_json \o S_tree \o encodeURIComponent(PARAMS_TREE)

ConsolePath(job, build) == jobPath(job) \o <<"/">> \o build \o S_consoleText

BuildPath(job) == jobPath(job) \o S_build

BuildWithParametersPath(job) == jobPath(job) \o S_buildWithParameters

RebuildInfoPath(job, build) ==
  jobPath(job) \o <<"/">> \o build \o S_api_json \o S_tree
    \o encodeURIComponent(REBUILD_TREE)

QueueItemPath(queue_id) == S_queue_item \o queue_id \o S_api_json

\* a faulty collection that stops after the first property
PushDefinitions_FirstProperty(props, acc) ==
  IF Len(props) = 0 THEN acc
  ELSE LET defs == GetProp(Head(props), K_parameterDefinitions)
       IN  IF Truthy(defs) THEN acc \o defs.v ELSE acc

\* for (const prop of data.property || [])
\*   if (prop.parameterDefinitions) params.push(...prop.parameterDefinitions)
RECURSIVE PushDefinitions(_, _)
PushDefinitions(props, acc) ==
  IF Len(props) = 0 THEN acc
  ELSE LET defs == GetProp(Head(props), K_parameterDefinitions)
       IN  PushDefinitions(Tail(props),
                           IF Truthy(defs) THEN acc \o defs.v ELSE acc)

ParameterDefinitions(data) ==
  PushDefinitions(OrEmpty(GetProp(data, K_property)), <<>>)

GetParamsText(data) ==
  LET defs == ParameterDefinitions(data)
  IN  IF Len(defs) = 0 THEN NO_PARAMS_TEXT ELSE JsonPretty(JArr(defs))

\* a faulty selection that keeps the first lines: slice(0, tail)
TailLines_FirstLines(text, tail) ==
  IF Truthy(tail) /\ tail.v > 0
  THEN LET lines == JsSplit(text, NL)
       IN  JsJoin(JsSlice(lines, 0, tail.v), <<NL>>)
  ELSE text

\* if (tail && tail > 0) text = text.split("\n").slice(-tail).join("\n")
TailLines(text, tail) ==
  IF Truthy(tail) /\ tail.v > 0
  THEN LET lines == JsSplit(text, NL)
       IN  JsJoin(JsSlice(lines, 0 - tail.v, Len(lines)), <<NL>>)
  ELSE text

\* a faulty truncation that starts at the limit: text.length >= 100_000
Truncate_AtLimit(text) ==
  IF Len(text) >= CONSOLE_LIMIT
  THEN TRUNCATED_MARKER \o JsSlice(text, 0 - CONSOLE_KEEP, Len(text))
  ELSE text

\* if (text.length > 100_000) text = "[... truncated ...]\n" + text.slice(-100_000)
Truncate(text) ==
  IF Len(text) > CONSOLE_LIMIT
  THEN TRUNCATED_MARKER \o JsSlice(text, 0 - CONSOLE_KEEP, Len(text))
  ELSE text

ConsoleOutput(text, tail) == Truncate(TailLines(text, tail))

\* a faulty read of a header the response does not have
LocationOf_Absent(res) == <<>>

\* res.headers.get("location") || ""
LocationOf(res) == IF res.location.some THEN res.location.v ELSE <<>>

BuildText(location) ==
  S_build_triggered \o location \o S_poll \o location \o S_poll_rest

StringValue(p) == Prop(p.k, JStr(p.v))

\* an object of string values as a JSON value
StringRecord(o) == JObj([i \in 1..Len(o) |-> StringValue(o[i])])

BuildWithParamsText(ps, location) ==
  S_with_parameters \o JsonCompact(StringRecord(ps)) \o S_queue_url \o location

\* if (p.name && p.value !== undefined) params[p.name] = String(p.value)
KeepParameter(p) ==
  Truthy(GetProp(p, K_name)) /\ GetProp(p, K_value).t # "undefined"

RECURSIVE ExtractParameters(_, _)
ExtractParameters(ps, acc) ==
  IF Len(ps) = 0 THEN acc
  ELSE LET p == Head(ps)
       IN  ExtractParameters(Tail(ps),
             IF KeepParameter(p)
             THEN ObjectSet(acc, JsString(GetProp(p, K_name)),
                            JsString(GetProp(p, K_value)))
             ELSE acc)

\* for (const action of info.actions || [])
\*   for (const p of action.parameters || []) ...
RECURSIVE ExtractActions(_, _)
ExtractActions(actions, acc) ==
  IF Len(actions) = 0 THEN acc
  ELSE ExtractActions(Tail(actions),
         ExtractParameters(OrEmpty(GetProp(Head(actions), K_parameters)), acc))

ExtractedParams(info) == ExtractActions(OrEmpty(GetProp(info, K_actions)), <<>>)

\* a faulty test that needs two parameters: length > 1
HasParams_MoreThanOne(ps) == Len(ObjectKeys(ps)) > 1

\* a faulty test that is always true: length >= 0
HasParams_Always(ps) == Len(ObjectKeys(ps)) >= 0

\* Object.keys(params).length > 0
HasParams(ps) == Len(ObjectKeys(ps)) > 0

\* step 2 of jenkins_rebuild: the request that triggers the new build
RebuildTrigger(base, job, ps) ==
  IF HasParams(ps)
  THEN JenkinsRequest(base, BuildWithParametersPath(job),
                      PostFormOptions(URLSearchParamsToString(ps)))
  ELSE JenkinsRequest(base, BuildPath(job), PostOptions)

RebuildText(build, ps, location) ==
  S_rebuild_of \o build \o S_rebuild_triggered \o JsonCompact(StringRecord(ps))
    \o S_queue_url \o location

-----------------------------------------------------------------------------
(* Inputs: tool arguments and what the Jenkins server answers.             *)

SeqsUpTo(A, n) == UNION {[1..k -> A] : k \in 0..n}

JobAlphabet == {"a", "/", " "}

\* job identifiers: every string over the alphabet up to MaxJobLen, and one
\* with a folder that is itself called job and a name with a reserved character
Jobs ==
  SeqsUpTo(JobAlphabet, MaxJobLen) \cup {<<"j","o","b","/","b","%">>}

\* the job identifiers the other tools are called with
FewJobs == {<<"a">>, <<"f","/","a"," ","b">>}

\* the job jenkins_get_console_output and jenkins_rebuild are called with
FolderJob == {<<"f","/","a"," ","b">>}

Trees == {JUndefined, JStr(<<>>), JStr(<<"a",",","b">>)}

Builds == {JUndefined, JStr(<<"7">>)}

BuildNumbers == {<<"7">>}

QueueIds == {<<"5">>}

Tails == {JUndefined} \cup {JNum(k) : k \in (0 - 1)..MaxTail}

\* params arguments of jenkins_build_with_params
ParamRecords ==
  {<<>>,
   <<Prop(<<"A">>, <<"1">>)>>,
   <<Prop(<<"A">>, <<"1">>), Prop(<<"B">>, <<"x"," ","&","=">>)>>}

\* n characters, the i-th one the last digit of i
Filler(n) == SubSeq([i \in 1..n |-> Digit(i % 10)], 1, n)

S_OK == <<"O","K">>

S_Created == <<"C","r","e","a","t","e","d">>

S_Not_Found == <<"N","o","t"," ","F","o","u","n","d">>

S_Internal_Server_Error ==
  <<"I","n","t","e","r","n","a","l"," ","S","e","r","v","e","r"," ",
    "E","r","r","o","r">>

S_internal_error ==
  <<"i","n","t","e","r","n","a","l"," ","e","r","r","o","r">>

ErrorBodies ==
  {<<>>, S_internal_error} \cup
  {Filler(ERROR_BODY_LIMIT + d) : d \in {0 - 1, 0, 1}}

\* answers that make jenkins() throw
ErrorResponses ==
  {Response(500, S_Internal_Server_Error, b, TRUE, JUndefined, None) :
     b \in ErrorBodies}
  \cup {Response(500, S_Internal_Server_Error, S_internal_error, FALSE,
                 JUndefined, None),
        Response(404, S_Not_Found, <<>>, TRUE, JUndefined, None),
        NetworkFailure}

\* answers that make the second request of a rebuild throw
TriggerErrors ==
  {Response(500, S_Internal_Server_Error, Filler(ERROR_BODY_LIMIT + 1), TRUE,
            JUndefined, None),
   NetworkFailure}

JsonOk(data) == Response(200, S_OK, <<>>, TRUE, data, None)

TextOk(text) == Response(200, S_OK, text, TRUE, JUndefined, None)

Created(location) == Response(201, S_Created, <<>>, TRUE, JUndefined, location)

\* job, build and queue item documents
Documents ==
  {JObj(<<>>),
   JObj(<<Prop(K_name, JStr(<<"a","\"","b">>)),
          Prop(K_value, JArr(<<JNum(12), JObj(<<Prop(K_name, JNull)>>),
                               JArr(<<>>), JBool(TRUE)>>))>>)}

Locations ==
  {None, Some(<<>>), Some(<<"h",":","/","/","j","/","q","/","5","/">>)}

\* parameter definitions a job can carry
Definitions ==
  {JObj(<<Prop(K_name, JStr(<<"A">>))>>),
   JObj(<<Prop(K_name, JStr(<<"B">>)), Prop(K_value, JNull)>>)}

DefinitionsProperty(defs) == JObj(<<Prop(K_parameterDefinitions, JArr(defs))>>)

\* job documents as the params tree filter returns them: no property list,
\* an empty one, properties without parameterDefinitions, and up to MaxDefs
\* definitions in one property or spread over two
ParamsDocuments ==
  {JObj(<<>>),
   JObj(<<Prop(K_property, JArr(<<>>))>>),
   JObj(<<Prop(K_property, JArr(<<JObj(<<>>), JObj(<<>>)>>))>>)}
  \cup {JObj(<<Prop(K_property, JArr(<<JObj(<<>>), DefinitionsProperty(ds)>>))>>) :
          ds \in SeqsUpTo(Definitions, MaxDefs)}
  \cup UNION {{JObj(<<Prop(K_property,
                           JArr(<<DefinitionsProperty(SubSeq(ds, 1, c)), JObj(<<>>),
                                  DefinitionsProperty(SubSeq(ds, c + 1, Len(ds)))>>))>>) :
                 c \in 0..Len(ds)} : ds \in SeqsUpTo(Definitions, MaxDefs)}

\* parameters a build can have recorded: two values of one name, a null
\* value, no value, no name, an empty name, and the name __proto__
RecordedParameters ==
  {JObj(<<Prop(K_name, JStr(<<"A">>)), Prop(K_value, JStr(<<"1">>))>>),
   JObj(<<Prop(K_name, JStr(<<"A">>)), Prop(K_value, JStr(<<"x"," ","&","=">>))>>),
   JObj(<<Prop(K_name, JStr(<<"B">>)), Prop(K_value, JNull)>>),
   JObj(<<Prop(K_name, JStr(<<"B">>))>>),
   JObj(<<Prop(K_value, JStr(<<"1">>))>>),
   JObj(<<Prop(K_name, JStr(<<>>)), Prop(K_value, JStr(<<"1">>))>>),
   JObj(<<Prop(K_name, JStr(K_proto)), Prop(K_value, JStr(<<"1">>))>>)}

ParametersAction(ps) == JObj(<<Prop(K_parameters, JArr(ps))>>)

\* build documents as the rebuild tree filter returns them: no actions, no
\* action with parameters, and up to MaxEntries recorded parameters in one
\* action or spread over two
BuildDocuments ==
  {JObj(<<>>),
   JObj(<<Prop(K_actions, JArr(<<>>))>>),
   JObj(<<Prop(K_actions, JArr(<<JObj(<<>>), JObj(<<>>)>>))>>)}
  \cup {JObj(<<Prop(K_actions, JArr(<<JObj(<<>>), ParametersAction(es)>>))>>) :
          es \in SeqsUpTo(RecordedParameters, MaxEntries)}
  \cup UNION {{JObj(<<Prop(K_actions,
                           JArr(<<ParametersAction(SubSeq(es, 1, c)), JObj(<<>>),
                                  ParametersAction(SubSeq(es, c + 1, Len(es)))>>))>>) :
                 c \in 0..Len(es)} : es \in SeqsUpTo(RecordedParameters, MaxEntries)}

\* a console log of n characters: a, a newline, then digits
LongLog(n) ==
  SubSeq([i \in 1..n |-> IF i = 1 THEN "a" ELSE IF i = 2 THEN NL ELSE Digit(i % 10)],
         1, n)

LongLogs == {LongLog(CONSOLE_LIMIT + d) : d \in 0..3}

ConsoleLogs == SeqsUpTo({"a", NL}, MaxLogLen) \cup LongLogs

-----------------------------------------------------------------------------
(* The server: one tool call at a time, suspended while a request is out.  *)

NoCall ==
  [tool |-> "none", job |-> <<>>, build |-> <<>>, tree |-> JUndefined,
   tail |-> JUndefined, params |-> <<>>, queue_id |-> <<>>]

Init ==
  /\ JENKINS_URL \in {StripTrailingSlashes(e) : e \in EnvJenkinsUrls}
  /\ pc = "idle"
  /\ call = NoCall
  /\ sent = <<>>
  /\ recv = <<>>
  /\ params = <<>>
  /\ result = Pending

\* a handler starts and suspends in its first await jenkins(...)
Start(c, path, options) ==
  /\ call' = c
  /\ sent' = <<JenkinsRequest(JENKINS_URL, path, options)>>
  /\ pc' = "await"
  /\ UNCHANGED <<JENKINS_URL, recv, params, result>>

\* the only request of a handler settles: it throws, or returns its text
Settle(res, text) ==
  /\ recv' = Append(recv, res)
  /\ result' = IF JenkinsThrows(res) THEN ErrorResult(ThrownMessage(res))
               ELSE TextResult(text)
  /\ pc' = "done"
  /\ UNCHANGED <<JENKINS_URL, call, sent, params>>

Awaiting(tool, n) == pc = "await" /\ call.tool = tool /\ Len(sent) = n

jenkins_get_job_info_call ==
  /\ pc = "idle"
  /\ \E job \in Jobs, tree \in Trees :
       Start([NoCall EXCEPT !.tool = "jenkins_get_job_info", !.job = job,
                            !.tree = tree],
             JobInfoPath(job, tree), DefaultOptions)

jenkins_get_job_info_return ==
  /\ Awaiting("jenkins_get_job_info", 1)
  /\ \E res \in {JsonOk(d) : d \in Documents} \cup ErrorResponses :
       Settle(res, JsonPretty(res.json))

jenkins_get_build_info_call ==
  /\ pc = "idle"
  /\ \E job \in FewJobs, b \in Builds, tree \in Trees :
       LET build == BuildDefault(b)
       IN  Start([NoCall EXCEPT !.tool = "jenkins_get_build_info", !.job = job,
                                !.build = build, !.tree = tree],
                 BuildInfoPath(job, build, tree), DefaultOptions)

jenkins_get_build_info_return ==
  /\ Awaiting("jenkins_get_build_info", 1)
  /\ \E res \in {JsonOk(d) : d \in Documents} \cup ErrorResponses :
       Settle(res, JsonPretty(res.json))

jenkins_get_params_call ==
  /\ pc = "idle"
  /\ \E job \in FewJobs :
       Start([NoCall EXCEPT !.tool = "jenkins_get_params", !.job = job],
             ParamsPath(job), DefaultOptions)

jenkins_get_params_return ==
  /\ Awaiting("jenkins_get_params", 1)
  /\ \E res \in {JsonOk(d) : d \in ParamsDocuments} \cup ErrorResponses :
       Settle(res, GetParamsText(res.json))

jenkins_get_console_output_call ==
  /\ pc = "idle"
  /\ \E job \in FolderJob, b \in Builds, tail \in Tails :
       LET build == BuildDefault(b)
       IN  Start([NoCall EXCEPT !.tool = "jenkins_get_console_output",
                                !.job = job, !.build = build, !.tail = tail],
                 ConsolePath(job, build), DefaultOptions)

jenkins_get_console_output_return ==
  /\ Awaiting("jenkins_get_console_output", 1)
  /\ \E res \in {TextOk(t) : t \in ConsoleLogs} \cup ErrorResponses :
       Settle(res, ConsoleOutput(Chars(res.text), call.tail))

jenkins_build_call ==
  /\ pc = "idle"
  /\ \E job \in FewJobs :
       Start([NoCall EXCEPT !.tool = "jenkins_build", !.job = job],
             BuildPath(job), PostOptions)

jenkins_build_return ==
  /\ Awaiting("jenkins_build", 1)
  /\ \E res \in {Created(l) : l \in Locations} \cup ErrorResponses :
       Settle(res, BuildText(LocationOf(res)))

jenkins_build_with_params_call ==
  /\ pc = "idle"
  /\ \E job \in FewJobs, ps \in ParamRecords :
       Start([NoCall EXCEPT !.tool = "jenkins_build_with_params", !.job = job,
                            !.params = ps],
             BuildWithParametersPath(job),
             PostFormOptions(URLSearchParamsToString(ps)))

jenkins_build_with_params_return ==
  /\ Awaiting("jenkins_build_with_params", 1)
  /\ \E res \in {Created(l) : l \in Locations} \cup ErrorResponses :
       Settle(res, BuildWithParamsText(call.params, LocationOf(res)))

jenkins_rebuild_call ==
  /\ pc = "idle"
  /\ \E job \in FolderJob, build \in BuildNumbers :
       Start([NoCall EXCEPT !.tool = "jenkins_rebuild", !.job = job,
                            !.build = build],
             RebuildInfoPath(job, build), DefaultOptions)

\* a faulty step 1 that swallows what jenkins() throws and goes on to step 2
\* without parameters
jenkins_rebuild_step1_Continues ==
  /\ Awaiting("jenkins_rebuild", 1)
  /\ \E res \in {JsonOk(d) : d \in BuildDocuments} \cup ErrorResponses :
       LET ps == IF JenkinsThrows(res) THEN <<>> ELSE ExtractedParams(res.json)
       IN  /\ recv' = Append(recv, res)
           /\ params' = ps
           /\ sent' = Append(sent, RebuildTrigger(JENKINS_URL, call.job, ps))
           /\ pc' = "await"
           /\ UNCHANGED <<JENKINS_URL, call, result>>

\* step 1 settles: it throws, or the parameters are extracted and the
\* handler suspends in the request of step 2
jenkins_rebuild_step1 ==
  /\ Awaiting("jenkins_rebuild", 1)
  /\ \E res \in {JsonOk(d) : d \in BuildDocuments} \cup ErrorResponses :
       /\ recv' = Append(recv, res)
       /\ IF JenkinsThrows(res)
          THEN /\ result' = ErrorResult(ThrownMessage(res))
               /\ pc' = "done"
               /\ UNCHANGED <<sent, params>>
          ELSE /\ params' = ExtractedParams(res.json)
               /\ sent' = Append(sent, RebuildTrigger(JENKINS_URL, call.job,
                                                      ExtractedParams(res.json)))
               /\ pc' = "await"
               /\ UNCHANGED result
       /\ UNCHANGED <<JENKINS_URL, call>>

jenkins_rebuild_step2 ==
  /\ Awaiting("jenkins_rebuild", 2)
  /\ \E res \in {Created(l) : l \in Locations} \cup TriggerErrors :
       Settle(res, RebuildText(call.build, params, LocationOf(res)))

jenkins_get_queue_item_call ==
  /\ pc = "idle"
  /\ \E queue_id \in QueueIds :
       Start([NoCall EXCEPT !.tool = "jenkins_get_queue_item",
                            !.queue_id = queue_id],
             QueueItemPath(queue_id), DefaultOptions)

jenkins_get_queue_item_return ==
  /\ Awaiting("jenkins_get_queue_item", 1)
  /\ \E res \in {JsonOk(d) : d \in Documents} \cup ErrorResponses :
       Settle(res, JsonPretty(res.json))

\* the call is over; the server waits for the next one
NextCall ==
  /\ pc = "done"
  /\ pc' = "idle"
  /\ call' = NoCall
  /\ sent' = <<>>
  /\ recv' = <<>>
  /\ params' = <<>>
  /\ result' = Pending
  /\ UNCHANGED JENKINS_URL

Next ==
  \/ jenkins_get_job_info_call
  \/ jenkins_get_job_info_return
  \/ jenkins_get_build_info_call
  \/ jenkins_get_build_info_return
  \/ jenkins_get_params_call
  \/ jenkins_get_params_return
  \/ jenkins_get_console_output_call
  \/ jenkins_get_console_output_return
  \/ jenkins_build_call
  \/ jenkins_build_return
  \/ jenkins_build_with_params_call
  \/ jenkins_build_with_params_return
  \/ jenkins_rebuild_call
  \/ jenkins_rebuild_step1
  \/ jenkins_rebuild_step2
  \/ jenkins_get_queue_item_call
  \/ jenkins_get_queue_item_return
  \/ NextCall

Spec == Init /\ [][Next]_vars

-----------------------------------------------------------------------------
(* Properties.  What a property expects is stated from the call's inputs   *)
(* and the responses received, by position in the strings and documents,   *)
(* not with the operators the handlers compute with.                       *)

StartsWith(s, prefix) ==
  Len(prefix) <= Len(s) /\ SubSeq(s, 1, Len(prefix)) = prefix

EndsWith(s, suffix) ==
  Len(suffix) <= Len(s) /\ SubSeq(s, Len(s) - Len(suffix) + 1, Len(s)) = suffix

Contains(s, sub) ==
  \E i \in 1..(Len(s) - Len(sub) + 1) : SubSeq(s, i, i + Len(sub) - 1) = sub

\* the last n elements of s (all of s when it has fewer)
LastOf(s, n) == SubSeq(s, IF Len(s) > n THEN Len(s) - n + 1 ELSE 1, Len(s))

\* the first n elements of s (all of s when it has fewer)
FirstOf(s, n) == SubSeq(s, 1, IF Len(s) > n THEN n ELSE Len(s))

\* the text of the result, or of the error, of the call
ResultText == Chars(result.text)

InCall(tool) == pc # "idle" /\ call.tool = tool

Returned(tool) == pc = "done" /\ call.tool = tool /\ result.kind = "text"

\* the response is a non-2xx HTTP response
NonSuccess(res) == ~res.net /\ (res.status < 200 \/ res.status > 299)

\* the path of a request, after the base URL and its slash
RequestPath(r) == SubSeq(r.url, Len(JENKINS_URL) + 2, Len(r.url))

JobUrl(job, endpoint) == JENKINS_URL \o <<"/">> \o jobPath(job) \o endpoint

-----------------------------------------------------------------------------
(* Job Path Resolver.                                                      *)

Slashes(job) == {p \in 1..Len(job) : job[p] = "/"}

NumSegments(job) == Cardinality(Slashes(job)) + 1

\* the position of the i-th slash; 0 before the first segment and
\* Len(job) + 1 after the last
Boundary(job, i) ==
  IF i = 0 THEN 0
  ELSE IF i = NumSegments(job) THEN Len(job) + 1
  ELSE CHOOSE p \in Slashes(job) : Cardinality({q \in Slashes(job) : q <= p}) = i

Segment(job, i) == SubSeq(job, Boundary(job, i - 1) + 1, Boundary(job, i) - 1)

MarkerName == <<"j","o","b">>

\* the path starts with n pairs marker/segment, the i-th segment being the
\* percent-encoded i-th segment of the job, and goes on with something that
\* is not a further marker
ResolvesJob(path, job) ==
  LET parts == JsSplit(path, "/")
      n     == NumSegments(job)
  IN  /\ Len(parts) > 2 * n
      /\ \A i \in 1..n :
           /\ parts[2 * i - 1] = MarkerName
           /\ parts[2 * i] = encodeURIComponent(Segment(job, i))
      /\ parts[2 * n + 1] # MarkerName

\* C5: every request of a tool that takes a job goes to a path that consists
\* of exactly N marker/segment pairs for the N slash-separated segments of the
\* job identifier (empty segments and the empty identifier included), the
\* i-th marker followed by the percent-encoded i-th segment, in order.
C5_JobPathSegments ==
  (pc # "idle" /\ call.tool # "jenkins_get_queue_item") =>
    \A k \in 1..Len(sent) : ResolvesJob(RequestPath(sent[k]), call.job)

\* C5 witness: a request for a job of two segments, one with a character
\* that is percent-encoded and one empty.
C5_Witness ==
  /\ InCall("jenkins_get_job_info")
  /\ NumSegments(call.job) = 2
  /\ Segment(call.job, 1) = <<" ">>
  /\ Segment(call.job, 2) = <<>>
  /\ RequestPath(sent[1]) =
       <<"j","o","b","/","%","2","0","/","j","o","b","/",
         "/","a","p","i","/","j","s","o","n">>

-----------------------------------------------------------------------------
(* jenkins_get_console_output.                                             *)

Newlines(log) == {p \in 1..Len(log) : log[p] = NL}

NumLines(log) == Cardinality(Newlines(log)) + 1

\* the last k lines of the log as they stand in it: what follows the newline
\* that has k - 1 newlines after it
LastLines(log, k) ==
  IF k = 0 THEN <<>>
  ELSE IF k >= NumLines(log) THEN log
  ELSE LET cut == CHOOSE p \in Newlines(log) :
                    Cardinality({q \in Newlines(log) : q > p}) = k - 1
       IN  SubSeq(log, cut + 1, Len(log))

ConsoleLog == Chars(recv[1].text)

\* the output after the tail selection: the last tail lines when a positive
\* tail is given, the whole log otherwise
Selected(log, tail) ==
  IF tail.t = "number" /\ tail.v >= 1 THEN LastLines(log, tail.v) ELSE log

\* the result is the last k lines of the log, up to the truncation of a
\* selection longer than 100,000 characters
ReturnsLastLines(k) ==
  LET suffix == LastLines(ConsoleLog, k)
  IN  IF Len(suffix) <= 100000 THEN ResultText = suffix
      ELSE LastOf(ResultText, 100000) = LastOf(suffix, 100000)

C7_Truncation ==
  Returned("jenkins_get_console_output") =>
    LET out  == Selected(ConsoleLog, call.tail)
        text == ResultText
    IN  IF Len(out) > 100000
        THEN /\ Len(text) = Len(TRUNCATED_MARKER) + 100000
             /\ FirstOf(text, Len(TRUNCATED_MARKER)) = TRUNCATED_MARKER
             /\ LastOf(text, 100000) = SubSeq(out, Len(out) - 99999, Len(out))
        ELSE text = out

\* C7 witness: a tail selection of 100,001 characters, returned truncated.
C7_Witness ==
  /\ Returned("jenkins_get_console_output")
  /\ call.tail = JNum(1)
  /\ Len(ConsoleLog) = 100003
  /\ Len(Selected(ConsoleLog, call.tail)) = 100001
  /\ StartsWith(ResultText, TRUNCATED_MARKER)
  /\ Len(ResultText) = 100020

-----------------------------------------------------------------------------
(* Failures.                                                               *)

\* "Jenkins <status> <status text>: "
MessageHead(res) ==
  <<"J","e","n","k","i","n","s"," ">> \o NumberToString(res.status) \o <<" ">>
    \o res.statusText \o <<":"," ">>

\* the body as the handler could read it
BodyRead(res) == IF res.textOk THEN Chars(res.text) ELSE <<>>

\* C3: once a request of a call has received a non-2xx response, the call
\* has issued no further request, is over, and has failed without a text
\* result, its error carrying the status of that response; for
\* jenkins_rebuild a failed step 1 means that no POST was issued.
C3_FailureAborts ==
  \A i \in 1..Len(recv) :
    NonSuccess(recv[i]) =>
      /\ i = Len(recv)
      /\ Len(sent) = i
      /\ pc = "done"
      /\ result.kind = "error"
      /\ StartsWith(ResultText, MessageHead(recv[i]))
      /\ (call.tool = "jenkins_rebuild" /\ i = 1) =>
           \A k \in 1..Len(sent) : sent[k].method # "POST"

\* C3 witness: step 1 of a rebuild answered 500; the call is over with the
\* GET as its only request.
C3_Witness ==
  /\ InCall("jenkins_rebuild")
  /\ Len(recv) = 1
  /\ recv[1].status = 500
  /\ pc = "done"
  /\ result.kind = "error"
  /\ Len(sent) = 1
  /\ sent[1].method = "GET"

\* C4: a call that receives a non-2xx response fails with the message
\* "Jenkins <status> <status text>: " followed by the first 500 characters
\* of the response body (all of it when it is shorter) and nothing more; a
\* 500 with body "internal error" gives a message containing both.
C4_ErrorMessage ==
  (Len(recv) > 0 /\ NonSuccess(recv[Len(recv)])) =>
    LET res  == recv[Len(recv)]
        body == BodyRead(res)
    IN  /\ result.kind = "error"
        /\ ResultText = MessageHead(res) \o FirstOf(body, 500)
        /\ Len(ResultText) <= Len(MessageHead(res)) + 500
        /\ Contains(ResultText, NumberToString(res.status))
        /\ Contains(ResultText, res.statusText)
        /\ (res.status = 500 /\ body = S_internal_error) =>
             /\ Contains(ResultText, <<"5","0","0">>)
             /\ Contains(ResultText, <<"i","n","t","e","r","n","a","l"," ",
                                        "e","r","r","o","r">>)

\* C4 witness: step 2 of a rebuild answered 500 with a body of 501
\* characters, of which the message keeps 500.
C4_Witness ==
  /\ InCall("jenkins_rebuild")
  /\ Len(recv) = 2
  /\ recv[2].status = 500
  /\ recv[2].textOk
  /\ Len(Chars(recv[2].text)) = 501
  /\ result.kind = "error"
  /\ Len(ResultText) = Len(MessageHead(recv[2])) + 500

-----------------------------------------------------------------------------
(* jenkins_rebuild.                                                        *)

\* the build document step 1 received
BuildDocument == recv[1].json

\* step 1 of the rebuild in progress has succeeded
Step1Succeeded ==
  InCall("jenkins_rebuild") /\ Len(recv) >= 1 /\ ~recv[1].net
    /\ recv[1].status \in 200..299

RecordedActions ==
  IF HasProp(BuildDocument, K_actions) THEN GetProp(BuildDocument, K_actions).v
  ELSE <<>>

RecordedIn(i) ==
  IF HasProp(RecordedActions[i], K_parameters)
  THEN GetProp(RecordedActions[i], K_parameters).v
  ELSE <<>>

\* the recorded parameter entries, by action and place in the action
Entries ==
  UNION {{<<i, j>> : j \in 1..Len(RecordedIn(i))} : i \in 1..Len(RecordedActions)}

Entry(e) == RecordedIn(e[1])[e[2]]

\* e comes after d in the order the entries are recorded in
After(e, d) == e[1] > d[1] \/ (e[1] = d[1] /\ e[2] > d[2])

\* the entry has a name (a non-empty string) and a defined value
Named(e) ==
  /\ HasProp(Entry(e), K_name)
  /\ GetProp(Entry(e), K_name).t = "string"
  /\ Len(GetProp(Entry(e), K_name).v) > 0

Defined(e) == HasProp(Entry(e), K_value)

NameOf(e) == GetProp(Entry(e), K_name).v

\* the recorded value as a string
ValueOf(e) ==
  LET v == GetProp(Entry(e), K_value)
  IN  IF v.t = "string" THEN v.v ELSE <<"n","u","l","l">>

\* the last recorded entry with a defined value for the name
LastFor(name) ==
  CHOOSE e \in Entries :
    /\ Named(e) /\ Defined(e) /\ NameOf(e) = name
    /\ \A d \in Entries :
         (Named(d) /\ Defined(d) /\ NameOf(d) = name) => ~After(d, e)

PercentChars ==
  {" ", "\n", "\"", "#", "%", "&", "+", ",", "/", ":", "=", "?", "[", "\\",
   "]", "{", "}", "!", "'", "(", ")", "*", "~", "-", ".", "_"}

\* a form-encoded name or value, decoded
RECURSIVE FormDecode(_)
FormDecode(s) ==
  IF Len(s) = 0 THEN <<>>
  ELSE IF s[1] = "+" THEN <<" ">> \o FormDecode(Tail(s))
  ELSE IF s[1] = "%"
       THEN <<CHOOSE c \in PercentChars : PercentCode(c) = SubSeq(s, 1, 3)>>
              \o FormDecode(SubSeq(s, 4, Len(s)))
  ELSE <<s[1]>> \o FormDecode(Tail(s))

\* the name/value pairs a server reads from a form-encoded body
FormFields(body) ==
  IF Len(body) = 0 THEN <<>>
  ELSE LET fields == JsSplit(body, "&")
       IN  [i \in 1..Len(fields) |->
              LET f  == fields[i]
                  eq == CHOOSE p \in 1..Len(f) :
                          f[p] = "=" /\ \A q \in 1..(p - 1) : f[q] # "="
              IN  <<FormDecode(SubSeq(f, 1, eq - 1)),
                    FormDecode(SubSeq(f, eq + 1, Len(f)))>>]

\* the extracted parameter set, as name/value pairs
ParameterSet == {<<params[k].k, params[k].v>> : k \in 1..Len(params)}

C2_RebuildWithoutParameters ==
  (Step1Succeeded /\ \A e \in Entries : ~(Named(e) /\ Defined(e))) =>
    /\ Len(sent) = 2
    /\ sent[2].method = "POST"
    /\ sent[2].url = JobUrl(call.job, <<"/","b","u","i","l","d">>)
    /\ ~sent[2].body.some
    /\ \A k \in 1..Len(sent) :
         ~Contains(sent[k].url, <<"b","u","i","l","d","W","i","t","h">>)

\* C2 witness: a rebuild of a build whose only recorded entries have no
\* value or no name has triggered the new build on the build endpoint.
C2_Witness ==
  /\ Returned("jenkins_rebuild")
  /\ Cardinality(Entries) = 2
  /\ \E e \in Entries : Named(e) /\ ~Defined(e)
  /\ \E e \in Entries : ~Named(e) /\ Defined(e)
  /\ EndsWith(sent[2].url, <<"/","b","u","i","l","d">>)
  /\ ~sent[2].body.some

\* C10: the extracted parameter set has one entry for each name that some
\* recorded entry carries together with a defined value, and no other entry;
\* the entry's value is the string of the last such recorded value.
C10_ExtractedIffNamedAndDefined ==
  Step1Succeeded =>
    /\ \A e \in Entries :
         (Named(e) /\ Defined(e)) =>
            \E k \in 1..Len(params) : params[k].k = NameOf(e)
    /\ \A k \in 1..Len(params) :
         /\ \E e \in Entries : Named(e) /\ Defined(e) /\ NameOf(e) = params[k].k
         /\ params[k].v = ValueOf(LastFor(params[k].k))
    /\ \A k, l \in 1..Len(params) : params[k].k = params[l].k => k = l

\* the same for every name but __proto__, the one name on which the
\* extraction and C10 part
ExtractedApartFromProto ==
  Step1Succeeded =>
    /\ \A e \in Entries :
         (Named(e) /\ Defined(e) /\ NameOf(e) # K_proto) =>
            \E k \in 1..Len(params) : params[k].k = NameOf(e)
    /\ \A k \in 1..Len(params) :
         /\ \E e \in Entries : Named(e) /\ Defined(e) /\ NameOf(e) = params[k].k
         /\ params[k].v = ValueOf(LastFor(params[k].k))
    /\ \A k, l \in 1..Len(params) : params[k].k = params[l].k => k = l

\* a rebuild of a build whose only recorded parameter is named __proto__: the
\* parameter is dropped and the new build is triggered without parameters
ProtoParameterDropped ==
  /\ Returned("jenkins_rebuild")
  /\ Entries = {<<2, 1>>}
  /\ Named(<<2, 1>>)
  /\ NameOf(<<2, 1>>) = K_proto
  /\ Defined(<<2, 1>>)
  /\ params = <<>>
  /\ EndsWith(sent[2].url, <<"/","b","u","i","l","d">>)

-----------------------------------------------------------------------------
(* jenkins_build and jenkins_build_with_params.                            *)

QueueUrlLabel == <<"Q","u","e","u","e"," ","U","R","L",":"," ">>

\* the text has the label "Queue URL: " once, followed by exactly the value
\* up to the end of the line
QueueUrlIs(text, value) ==
  LET at == {i \in 1..(Len(text) - Len(QueueUrlLabel) + 1) :
               SubSeq(text, i, i + Len(QueueUrlLabel) - 1) = QueueUrlLabel}
  IN  /\ Cardinality(at) = 1
      /\ LET from == (CHOOSE i \in at : TRUE) + Len(QueueUrlLabel)
             upto == from + Len(value) - 1
         IN  /\ upto <= Len(text)
             /\ SubSeq(text, from, upto) = value
             /\ (upto = Len(text) \/ text[upto + 1] = NL)

\* C8: when the trigger POST of jenkins_build or jenkins_build_with_params
\* succeeds with a Location header, the result text gives exactly that value
\* as the queue URL.
C8_QueueUrlIsLocation ==
  ((Returned("jenkins_build") \/ Returned("jenkins_build_with_params"))
     /\ recv[1].location.some) => QueueUrlIs(ResultText, recv[1].location.v)

\* C8 witness: jenkins_build_with_params with two parameters, answered with
\* a Location header, has returned a text that ends with its value.
C8_Witness ==
  /\ Returned("jenkins_build_with_params")
  /\ Len(call.params) = 2
  /\ recv[1].location = Some(<<"h",":","/","/","j","/","q","/","5","/">>)
  /\ EndsWith(ResultText,
              QueueUrlLabel \o <<"h",":","/","/","j","/","q","/","5","/">>)

-----------------------------------------------------------------------------
(* jenkins_get_params.                                                     *)

\* the job document the call received
JobDocument == recv[1].json

JobProperties ==
  IF HasProp(JobDocument, K_property) THEN GetProp(JobDocument, K_property).v
  ELSE <<>>

DefinitionsIn(i) ==
  IF HasProp(JobProperties[i], K_parameterDefinitions)
  THEN GetProp(JobProperties[i], K_parameterDefinitions).v
  ELSE <<>>

\* the number of definitions in the properties before the i-th
RECURSIVE DefinitionsBefore(_)
DefinitionsBefore(i) ==
  IF i <= 1 THEN 0 ELSE DefinitionsBefore(i - 1) + Len(DefinitionsIn(i - 1))

NumDefinitions == DefinitionsBefore(Len(JobProperties) + 1)

\* the j-th definition of the job, counting through the properties in order
Definition(j) ==
  LET i == CHOOSE p \in 1..Len(JobProperties) :
             DefinitionsBefore(p) < j /\ j <= DefinitionsBefore(p + 1)
  IN  DefinitionsIn(i)[j - DefinitionsBefore(i)]

\* C9: jenkins_get_params of a job without parameter definitions returns the
\* text "This job has no parameters defined." and not an empty JSON array;
\* of any other job it returns the JSON array of all definitions of all
\* properties, in property order and within a property in the given order.
C9_GetParams ==
  Returned("jenkins_get_params") =>
    IF NumDefinitions = 0
    THEN /\ ResultText = NO_PARAMS_TEXT
         /\ ResultText # <<"[","]">>
    ELSE ResultText =
           JsonPretty(JArr([j \in 1..NumDefinitions |-> Definition(j)]))

\* C9 witness: a job with definition B in its first property and A in its
\* third has returned the array of B and A.
C9_Witness ==
  /\ Returned("jenkins_get_params")
  /\ Len(JobProperties) = 3
  /\ NumDefinitions = 2
  /\ Len(DefinitionsIn(1)) = 1
  /\ Len(DefinitionsIn(3)) = 1
  /\ GetProp(Definition(1), K_name) = JStr(<<"B">>)
  /\ GetProp(Definition(2), K_name) = JStr(<<"A">>)
  /\ Contains(ResultText, <<"B">>)

====
